---- MODULE Spec2Model ----
(***************************************************************************)
(* Hybrid retrieval and query expansion of the KPI GPT RAG system:         *)
(*   src/vector_database.py   VectorDatabase  (index, keyword matcher,     *)
(*                            hybrid combiner)                             *)
(*   src/kpi_gpt_rag.py       KPIGPTRagSystem (retrieval orchestrator)     *)
(*   src/data_preprocessor.py KPIDataProcessor (chunker)                   *)
(*                                                                         *)
(* Strings are TLA+ strings and the str methods used by the code are       *)
(* computed character by character.  A similarity score is an integer in   *)
(* units of 1/One, so that 1.0 is One and 0.2 is One \div 5.               *)
(***************************************************************************)
EXTENDS Integers, Sequences, FiniteSets, TLC

(***************************************************************************)
(* Python str and list primitives.  A str method is computed on the        *)
(* sequence of the characters of the string, Chars(s), and Str turns a     *)
(* sequence of characters back into a string.                              *)
(***************************************************************************)
UpperAlpha == "ABCDEFGHIJKLMNOPQRSTUVWXYZ"
LowerAlpha == "abcdefghijklmnopqrstuvwxyz"
\* every character that occurs in a string of the model, in code order
Alphabet == " ?:,.()+-_0123456789" \o UpperAlpha \o LowerAlpha

CharAt(s, i) == SubSeq(s, i, i)

Chars(s) == SubSeq([i \in 1..Len(s) |-> CharAt(s, i)], 1, Len(s))

RECURSIVE StrOf(_, _, _)
\* the characters cs[from..to] as one string
StrOf(cs, from, to) ==
    IF from > to THEN ""
    ELSE IF from = to THEN cs[from]
    ELSE LET mid == (from + to) \div 2
         IN  StrOf(cs, from, mid) \o StrOf(cs, mid + 1, to)

Str(cs) == StrOf(cs, 1, Len(cs))

UpperChars == {CharAt(UpperAlpha, i) : i \in 1..Len(UpperAlpha)}
LowerChars == {CharAt(LowerAlpha, i) : i \in 1..Len(LowerAlpha)}

\* the lowercase of every uppercase letter, and the reverse
ToLower == [c \in UpperChars |->
               CharAt(LowerAlpha, CHOOSE i \in 1..Len(UpperAlpha) : CharAt(UpperAlpha, i) = c)]
ToUpper == [c \in LowerChars |->
               CharAt(UpperAlpha, CHOOSE i \in 1..Len(LowerAlpha) : CharAt(LowerAlpha, i) = c)]

IsUpperChar(c) == c \in UpperChars
IsLowerChar(c) == c \in LowerChars
IsAlphaChar(c) == IsUpperChar(c) \/ IsLowerChar(c)

LowerChar(c) == IF IsUpperChar(c) THEN ToLower[c] ELSE c
UpperChar(c) == IF IsLowerChar(c) THEN ToUpper[c] ELSE c

\* str.lower(), on characters and on a string
LowerSeq(cs) == SubSeq([i \in 1..Len(cs) |-> LowerChar(cs[i])], 1, Len(cs))
Lower(s) == Str(LowerSeq(Chars(s)))

\* str.capitalize()
Capitalize(s) ==
    LET cs == Chars(s)
    IN  Str([i \in 1..Len(cs) |-> IF i = 1 THEN UpperChar(cs[i]) ELSE LowerChar(cs[i])])

\* needle occurs in hay at place i
MatchAt(hay, needle, i) == \A j \in 1..Len(needle) : hay[i + j - 1] = needle[j]

\* needle in hay, on characters and on strings
ContainsSeq(hay, needle) == \E i \in 1..(Len(hay) - Len(needle) + 1) : MatchAt(hay, needle, i)
Contains(hay, needle) == ContainsSeq(Chars(hay), Chars(needle))

\* any(c.isupper() for c in word)
AnyUpper(s) == \E i \in 1..Len(s) : IsUpperChar(CharAt(s, i))

\* str.istitle(): an uppercase letter only after an uncased character, a
\* lowercase letter only after a cased one, and at least one cased character
IsTitle(s) ==
    LET cs == Chars(s)
    IN  /\ \E i \in 1..Len(cs) : IsAlphaChar(cs[i])
        /\ \A i \in 1..Len(cs) :
              LET prevCased == i > 1 /\ IsAlphaChar(cs[i - 1])
              IN  /\ IsUpperChar(cs[i]) => ~prevCased
                  /\ IsLowerChar(cs[i]) => prevCased

\* str.isalpha()
IsAlpha(s) == s # "" /\ \A i \in 1..Len(s) : IsAlphaChar(CharAt(s, i))

\* the least element of a non-empty set of integers
Least(S) == CHOOSE i \in S : \A j \in S : i <= j

\* str.strip(), on characters and on a string
StripSeq(cs) ==
    LET inked == {i \in 1..Len(cs) : cs[i] # " "}
    IN  IF inked = {} THEN <<>>
        ELSE SubSeq(cs, Least(inked), CHOOSE i \in inked : \A j \in inked : i >= j)
Strip(s) == Str(StripSeq(Chars(s)))

RECURSIVE SplitFrom(_, _)
\* the words of cs that begin at place i or later
SplitFrom(cs, i) ==
    LET inked == {j \in i..Len(cs) : cs[j] # " "}
    IN  IF inked = {} THEN <<>>
        ELSE LET start == Least(inked)
                 blanks == {j \in start..Len(cs) : cs[j] = " "}
                 end == IF blanks = {} THEN Len(cs) ELSE Least(blanks) - 1
             IN  <<StrOf(cs, start, end)>> \o SplitFrom(cs, end + 1)

\* str.split(), of characters and of a string
SplitSeq(cs) == SplitFrom(cs, 1)
Split(s) == SplitSeq(Chars(s))

RECURSIVE RemoveFrom(_, _, _)
\* the characters of cs from place i on, without the occurrences of phrase:
\* the leftmost occurrence at i or later is cut out, then the ones after it
RemoveFrom(cs, phrase, i) ==
    LET found == {j \in i..(Len(cs) - Len(phrase) + 1) : MatchAt(cs, phrase, j)}
    IN  IF found = {} THEN SubSeq(cs, i, Len(cs))
        ELSE SubSeq(cs, i, Least(found) - 1)
             \o RemoveFrom(cs, phrase, Least(found) + Len(phrase))

\* s.replace(phrase, ''), on characters and on strings
RemoveSeq(cs, phrase) == IF phrase = <<>> THEN cs ELSE RemoveFrom(cs, phrase, 1)
Remove(s, phrase) == Str(RemoveSeq(Chars(s), Chars(phrase)))

RECURSIVE Join(_)
\* ' '.join(words)
Join(words) ==
    IF words = <<>> THEN ""
    ELSE IF Len(words) = 1 THEN words[1]
         ELSE words[1] \o " " \o Join(Tail(words))

\* seq[start:] for a start that may be negative
SliceFrom(seq, start) ==
    LET from == IF start < 0
                THEN (IF Len(seq) + start < 0 THEN 0 ELSE Len(seq) + start)
                ELSE (IF start > Len(seq) THEN Len(seq) ELSE start)
    IN  SubSeq(seq, from + 1, Len(seq))

\* seq[:n]
Take(seq, n) == SubSeq(seq, 1, IF n < Len(seq) THEN n ELSE Len(seq))

Min(a, b) == IF a < b THEN a ELSE b

RECURSIVE InsertDesc(_, _)
RECURSIVE InsertDescBeforeEqual(_, _)
\* an insertion that places the pair before the pairs of equal key, which
\* makes the sort put equal items in the reverse of their order
InsertDescBeforeEqual(sorted, p) ==
    IF sorted = <<>> THEN <<p>>
    ELSE IF Head(sorted)[1] > p[1]
         THEN <<Head(sorted)>> \o InsertDescBeforeEqual(Tail(sorted), p)
         ELSE <<p>> \o sorted

\* the pair p = <<key, item>> placed behind every pair of the sorted list
\* whose key is >= its own
InsertDesc(sorted, p) ==
    IF sorted = <<>> THEN <<p>>
    ELSE IF Head(sorted)[1] >= p[1]
         THEN <<Head(sorted)>> \o InsertDesc(Tail(sorted), p)
         ELSE <<p>> \o sorted

RECURSIVE SortPairsDesc(_)
SortPairsDesc(pairs) ==
    IF pairs = <<>> THEN <<>>
    ELSE InsertDesc(SortPairsDesc(SubSeq(pairs, 1, Len(pairs) - 1)), pairs[Len(pairs)])

\* list.sort(key=..., reverse=True) where keys[i] is the key of seq[i]:
\* stable, so items with equal keys keep their order
SortDesc(seq, keys) ==
    LET sorted == SortPairsDesc([i \in 1..Len(seq) |-> <<keys[i], seq[i]>>])
    IN  [i \in 1..Len(seq) |-> sorted[i][2]]

(***************************************************************************)
(* Scores                                                                  *)
(***************************************************************************)
\* the float 1.0; every score and distance is a multiple of 1/One
One == 4200
\* the keyword boost 0.2 of _combine_search_results
KeywordBoost == One \div 5
\* the keyword threshold 0.5 of _keyword_search
KeywordThreshold == One \div 2

(***************************************************************************)
(* Bounds and input sets                                                   *)
(***************************************************************************)
MaxCorpus == 3
MaxResults == 2
MaxBatch == 2
MaxWords == 4
MaxStored == 3
MaxSeed == 1

\* the where argument None: no filter
None == [none |-> TRUE]

\* chunks as the chunker hands them to add_documents
Chunk(id, section, num, content) ==
    [chunk_id |-> id, section |-> section, content |-> content,
     metadata |-> [section |-> section, length |-> Len(content), chunk_num |-> num]]

\* the chunks of the model; the second is what a changed data file yields
\* under the id of the first
ChunkPool ==
    << Chunk("teachers_0", "teachers", 0, "Name: Julekha Akter Koli, Instructor (Chemistry)"),
       Chunk("teachers_0", "teachers", 0, "Name: Rahim Uddin, Instructor (Physics)"),
       Chunk("officials_0", "officials", 0, "Akter Hossain, Koli Begum, Julekha Khatun office staff"),
       Chunk("principal_0", "principal", 0, "Sheikh Mustafizur Rahman is the Principal"),
       Chunk("clubs_0", "clubs", 0, "Debate club contact: Rahim") >>

PoolIndex == 1..Len(ChunkPool)

\* the place of a document in the pool
DocIndex(document) == CHOOSE i \in PoolIndex : ChunkPool[i].content = document

\* distances the embedding model can put between a query and a chunk:
\* 0.1 (score 0.9), 0.5 (score 0.5) and 1.9 (score -0.9)
Distances == {One \div 10, One \div 2, (19 * One) \div 10}
\* the nearest and the farthest of them
NearFar == {One \div 10, (19 * One) \div 10}

QueryClasses == {"raw", "rewrite"}

VARIABLES
    collection,    \* the Chroma collection: stored entries in insertion order
    dbUp,          \* the storage engine answers (FALSE: get/query/add raise)
    embedFail,     \* which queries the embedding model fails on
    distance,      \* the embedding model: query class -> pool chunk -> distance
    hashSeed,      \* the str hash seed of the running process
    op,            \* the operation that ran last
    args,          \* its arguments
    ret,           \* what it returned and the searches it issued
    original,      \* the chunks the collection held when it was last reset
    data_file      \* the source document: whether it exists, and its sections

vars == <<collection, dbUp, embedFail, distance, hashSeed, op, args, ret, original,
          data_file>>

(***************************************************************************)
(* KPIDataProcessor: the chunker                                           *)
(***************************************************************************)
RECURSIVE SumLengths(_)
\* sum(len(w) + 1 for w in current_chunk)
SumLengths(words) ==
    IF words = <<>> THEN 0 ELSE Len(Head(words)) + 1 + SumLengths(Tail(words))

\* an overlap taken from the front of the closed chunk: current_chunk[:k]
OverlapWordsLeading(current_chunk, chunk_overlap) ==
    IF Len(current_chunk) > chunk_overlap \div 10
    THEN SubSeq(current_chunk, 1, Min(Len(current_chunk), 0 - ((0 - chunk_overlap) \div 10)))
    ELSE current_chunk

\* current_chunk[-self.chunk_overlap//10:] if len(current_chunk) >
\* self.chunk_overlap//10 else current_chunk; the unary minus binds first
OverlapWords(current_chunk, chunk_overlap) ==
    IF Len(current_chunk) > chunk_overlap \div 10
    THEN SliceFrom(current_chunk, (0 - chunk_overlap) \div 10)
    ELSE current_chunk

\* a chunk whose id leaves out the chunk number
WordChunkSameId(current_chunk, current_length, chunk_num, section, prefix) ==
    [content |-> Join(current_chunk),
     section |-> section,
     chunk_id |-> prefix \o "_0",
     metadata |-> [section |-> section, length |-> current_length,
                   chunk_num |-> chunk_num]]

\* the chunk the word loop appends
WordChunk(current_chunk, current_length, chunk_num, section, prefix) ==
    [content |-> Join(current_chunk),
     section |-> section,
     chunk_id |-> prefix \o "_" \o ToString(chunk_num),
     metadata |-> [section |-> section, length |-> current_length,
                   chunk_num |-> chunk_num]]

RECURSIVE WordLoop(_, _, _, _, _, _, _, _)
RECURSIVE WordLoopDropping(_, _, _, _, _, _, _, _)
\* a word loop that starts the next chunk with the overlap alone, without
\* the word that closed the chunk before it
WordLoopDropping(words, current_chunk, current_length, chunk_num, chunks, section, prefix, cfg) ==
    IF words = <<>>
    THEN IF current_chunk # <<>>
         THEN Append(chunks, WordChunk(current_chunk, current_length, chunk_num,
                                       section, prefix))
         ELSE chunks
    ELSE LET word == Head(words)
             word_length == Len(word) + 1
         IN  IF current_length + word_length > cfg.chunk_size /\ current_chunk # <<>>
             THEN LET next_chunk == OverlapWords(current_chunk, cfg.chunk_overlap)
                  IN  WordLoopDropping(Tail(words), next_chunk, SumLengths(next_chunk),
                               chunk_num + 1,
                               Append(chunks, WordChunk(current_chunk, current_length,
                                                        chunk_num, section, prefix)),
                               section, prefix, cfg)
             ELSE WordLoopDropping(Tail(words), Append(current_chunk, word),
                           current_length + word_length, chunk_num, chunks,
                           section, prefix, cfg)

\* the loop over the words of a text, and the last chunk after it
WordLoop(words, current_chunk, current_length, chunk_num, chunks, section, prefix, cfg) ==
    IF words = <<>>
    THEN IF current_chunk # <<>>
         THEN Append(chunks, WordChunk(current_chunk, current_length, chunk_num,
                                       section, prefix))
         ELSE chunks
    ELSE LET word == Head(words)
             word_length == Len(word) + 1
         IN  IF current_length + word_length > cfg.chunk_size /\ current_chunk # <<>>
             THEN LET next_chunk == OverlapWords(current_chunk, cfg.chunk_overlap)
                                      \o <<word>>
                  IN  WordLoop(Tail(words), next_chunk, SumLengths(next_chunk),
                               chunk_num + 1,
                               Append(chunks, WordChunk(current_chunk, current_length,
                                                        chunk_num, section, prefix)),
                               section, prefix, cfg)
             ELSE WordLoop(Tail(words), Append(current_chunk, word),
                           current_length + word_length, chunk_num, chunks,
                           section, prefix, cfg)

\* _create_section_chunks
CreateSectionChunks(text, section_name, cfg) ==
    IF Len(text) <= cfg.chunk_size
    THEN << [content |-> text, section |-> section_name,
             chunk_id |-> section_name \o "_0",
             metadata |-> [section |-> section_name, length |-> Len(text)]] >>
    ELSE WordLoop(Split(text), <<>>, 0, 0, <<>>, section_name, section_name, cfg)

\* _create_size_based_chunks
CreateSizeBasedChunks(text, cfg) ==
    WordLoop(Split(text), <<>>, 0, 0, <<>>, "general", "chunk", cfg)

\* the processor of KPIGPTRagSystem: chunk_size 1000, chunk_overlap 200
DefaultConfig == [chunk_size |-> 1000, chunk_overlap |-> 200]

\* the sections extract_structured_data extracts, in the order of its dict:
\* the text that opens each and the text that closes it in the document
Sections ==
    << [name |-> "about_college", start |-> "**About College:**", close |-> ""],
       [name |-> "departments", start |-> "**Departments of the Polytechnic Institute:**",
        close |-> "Since 2008"],
       [name |-> "department_heads", start |-> "**Department Details:**", close |-> "---"],
       [name |-> "officials", start |-> "**Officials:**", close |-> ""],
       [name |-> "teachers", start |-> "**List of Teachers", close |-> ""],
       [name |-> "principal", start |-> "Principal:", close |-> ""],
       [name |-> "clubs", start |-> "College Clubs at Khulna Polytechnic Institute",
        close |-> ""],
       [name |-> "class_captains", start |-> "CLass Captains :", close |-> ""],
       [name |-> "creator_info", start |-> "KPI GPT Creator", close |-> ""] >>

\* structured.get(section_name, '')
SectionText(file, section_name) ==
    IF section_name \in DOMAIN file.sections THEN file.sections[section_name] ELSE ""

RECURSIVE FileWords(_, _)
\* the cleaned text of a document, from its i-th section on: every section
\* between the texts that open and close it
FileWords(file, i) ==
    IF i > Len(Sections) THEN <<>>
    ELSE SelectSeq(<<Sections[i].start, SectionText(file, Sections[i].name),
                     Sections[i].close>>, LAMBDA part : part # "")
         \o FileWords(file, i + 1)

\* the cleaned text create_chunks is given
FileText(file) == Join(FileWords(file, 1))

RECURSIVE StructuredChunks(_, _, _)
\* for section_name, section_content in structured_data.items(): the chunks
\* of the sections that have content, from the i-th section on
StructuredChunks(file, i, cfg) ==
    IF i > Len(Sections) THEN <<>>
    ELSE (IF SectionText(file, Sections[i].name) # ""
          THEN CreateSectionChunks(SectionText(file, Sections[i].name),
                                   Sections[i].name, cfg)
          ELSE <<>>)
         \o StructuredChunks(file, i + 1, cfg)

\* a fallback that adds the size-only chunks to the structure-aware ones
SizeFallbackKeeping(chunks, text, cfg) ==
    IF Len(chunks) < 5 THEN chunks \o CreateSizeBasedChunks(text, cfg) ELSE chunks

\* if len(chunks) < 5: chunks = self._create_size_based_chunks(text)
SizeFallback(chunks, text, cfg) ==
    IF Len(chunks) < 5 THEN CreateSizeBasedChunks(text, cfg) ELSE chunks

\* create_chunks
CreateChunks(file, cfg) ==
    SizeFallback(StructuredChunks(file, 1, cfg), FileText(file), cfg)

(***************************************************************************)
(* VectorDatabase                                                          *)
(***************************************************************************)
\* the entry add_documents stores for a chunk (documents, metadatas, ids)
Entry(chunk) ==
    [id |-> chunk.chunk_id, document |-> chunk.content,
     metadata |-> [section |-> chunk.section, chunk_id |-> chunk.chunk_id,
                   length |-> IF "length" \in DOMAIN chunk.metadata
                              THEN chunk.metadata.length ELSE 0,
                   chunk_num |-> IF "chunk_num" \in DOMAIN chunk.metadata
                                 THEN chunk.metadata.chunk_num ELSE 0]]

\* generate_embeddings raises for this query
EmbedRaises(queryClass, mode) ==
    \/ mode = "always"
    \/ mode = "rewrites" /\ queryClass = "rewrite"

\* where-filter of collection.query: exact equality on metadata
Matches(entry, where) == where = None \/ entry.metadata.section = where.section

RECURSIVE SelectSeq2(_, _)
\* the entries of seq that match the filter, in order
SelectSeq2(seq, where) ==
    IF seq = <<>> THEN <<>>
    ELSE (IF Matches(Head(seq), where) THEN <<Head(seq)>> ELSE <<>>)
         \o SelectSeq2(Tail(seq), where)

\* one formatted result of _semantic_search
SemanticResult(entry, d) ==
    [content |-> entry.document, metadata |-> entry.metadata,
     similarity_score |-> One - d, distance |-> d, search_method |-> "semantic"]

\* collection.query over the candidates cand: the n_results nearest by
\* ascending distance d, formatted
Nearest(cand, d, n_results) ==
    Take(SortDesc([i \in 1..Len(cand) |->
                      SemanticResult(cand[i], d[DocIndex(cand[i].document)])],
                  [i \in 1..Len(cand) |-> 0 - d[DocIndex(cand[i].document)]]),
         n_results)

\* _semantic_search: every exception ends in the empty list
SemanticSearch(coll, up, mode, dist, queryClass, n_results, where) ==
    IF EmbedRaises(queryClass, mode) \/ ~up THEN <<>>
    ELSE Nearest(SelectSeq2(coll, where), dist[queryClass], n_results)

RECURSIVE SumWeights(_, _)
\* the keyword_score of a document before it is normalized; doc_lower is
\* the lowercased document, as characters
SumWeights(query_words, doc_lower) ==
    IF query_words = <<>> THEN 0
    ELSE (IF Len(Head(query_words)) > 2 /\ ContainsSeq(doc_lower, Chars(Head(query_words)))
          THEN (IF IsTitle(Head(query_words)) \/ AnyUpper(Head(query_words)) THEN 2 ELSE 1)
          ELSE 0)
         + SumWeights(Tail(query_words), doc_lower)

\* keyword_score / total_words
Normalized(keyword_score, total_words) ==
    IF total_words > 0 THEN (keyword_score * One) \div total_words ELSE 0

\* the normalized keyword_score of a document for the words of a query
WordsScore(query_words, document) ==
    Normalized(SumWeights(query_words, LowerSeq(Chars(document))), Len(query_words))

\* the normalized keyword_score of one document
KeywordScore(query, document) == WordsScore(Split(Lower(query)), document)

\* the result of _keyword_search for an entry, if its score is above the
\* threshold
KeywordHit(entry, keyword_score) ==
    IF keyword_score > KeywordThreshold
    THEN << [content |-> entry.document, metadata |-> entry.metadata,
             similarity_score |-> keyword_score,
             distance |-> One - keyword_score,
             search_method |-> "keyword",
             keyword_score |-> keyword_score] >>
    ELSE <<>>

RECURSIVE KeywordHits(_, _)
\* the documents whose keyword_score is above the threshold, in scan order
KeywordHits(coll, query_words) ==
    IF coll = <<>> THEN <<>>
    ELSE KeywordHit(Head(coll), WordsScore(query_words, Head(coll).document))
         \o KeywordHits(Tail(coll), query_words)

\* keyword_results.sort(key=keyword_score, reverse=True)[:n_results]
TopByKeywordScore(hits, n_results) ==
    Take(SortDesc(hits, [i \in 1..Len(hits) |-> hits[i].keyword_score]), n_results)

\* _keyword_search: the where argument is accepted and never used; every
\* exception ends in the empty list
KeywordSearch(coll, up, query, n_results, where) ==
    IF ~up THEN <<>>
    ELSE TopByKeywordScore(KeywordHits(coll, Split(Lower(query))), n_results)

\* hash(content) under the seed of the process
CodeOf == [c \in {CharAt(Alphabet, i) : i \in 1..Len(Alphabet)} |->
              CHOOSE i \in 1..Len(Alphabet) : CharAt(Alphabet, i) = c]

\* the width of a hash value (the 64 bits of a Python hash, scaled down so
\* that a product of two hashes is an integer TLC can hold)
HashModulus == 46337

RECURSIVE HashPower(_)
\* 31^k modulo the width
HashPower(k) ==
    IF k = 0 THEN 1
    ELSE IF k % 2 = 1 THEN (HashPower(k - 1) * 31) % HashModulus
    ELSE (HashPower(k \div 2) * HashPower(k \div 2)) % HashModulus

RECURSIVE HashOf(_, _, _)
\* the hash of the characters cs[from..to] from the start value 0: the
\* value of h after  for c in cs[from..to]: h = (h * 31 + code(c)) % width
HashOf(cs, from, to) ==
    IF from > to THEN 0
    ELSE IF from = to THEN CodeOf[cs[from]] % HashModulus
    ELSE (HashOf(cs, from, (from + to) \div 2) * HashPower(to - (from + to) \div 2)
          + HashOf(cs, (from + to) \div 2 + 1, to)) % HashModulus

\* hash(s) in a process whose hash seed is seed: the same loop from the
\* start value seed
StrHash(seed, s) ==
    ((seed % HashModulus) * HashPower(Len(s)) + HashOf(Chars(s), 1, Len(s))) % HashModulus

\* a keyword result with its boosted score
BoostedResult(result) ==
    [result EXCEPT !.similarity_score = Min(One, result.similarity_score + KeywordBoost)]

RECURSIVE AddUnseen(_, _, _, _, _)
RECURSIVE AddResult(_, _, _, _, _, _, _)
\* one loop of _combine_search_results over results: those whose content
\* hash is not in seen are appended to acc, keyword results boosted
AddUnseen(results, seen, acc, boost, seed) ==
    IF results = <<>> THEN [seen |-> seen, combined |-> acc]
    ELSE AddResult(Head(results), StrHash(seed, Head(results).content), Tail(results),
                   seen, acc, boost, seed)

\* one pass of that loop, for a result and its content_hash
AddResult(result, content_hash, rest, seen, acc, boost, seed) ==
    IF content_hash \notin seen
    THEN AddUnseen(rest, seen \cup {content_hash},
                   Append(acc, IF boost THEN BoostedResult(result) ELSE result),
                   boost, seed)
    ELSE AddUnseen(rest, seen, acc, boost, seed)

\* the second loop of _combine_search_results, after the first left first
AddAfter(first, results, boost, seed) ==
    AddUnseen(results, first.seen, first.combined, boost, seed).combined

\* the sorted combination without the cut to n_results
TopBySimilarityUncut(combined_results, n_results) ==
    SortDesc(combined_results,
             [i \in 1..Len(combined_results) |-> combined_results[i].similarity_score])

\* combined_results.sort(key=similarity_score, reverse=True)[:n_results]
TopBySimilarity(combined_results, n_results) ==
    Take(SortDesc(combined_results,
                  [i \in 1..Len(combined_results) |-> combined_results[i].similarity_score]),
         n_results)

\* _combine_search_results that lets the semantic results in first, so that
\* a chunk found by both searches keeps its semantic score
CombineSemanticFirst(semantic_results, keyword_results, n_results, seed) ==
    TopBySimilarity(AddAfter(AddUnseen(semantic_results, {}, <<>>, FALSE, seed),
                             keyword_results, TRUE, seed),
                    n_results)

\* _combine_search_results
CombineSearchResults(semantic_results, keyword_results, n_results, seed) ==
    TopBySimilarity(AddAfter(AddUnseen(keyword_results, {}, <<>>, TRUE, seed),
                             semantic_results, FALSE, seed),
                    n_results)

\* the two result lists of search_similar and what it returns
Combined(semantic_results, keyword_results, n_results, seed) ==
    [semantic_results |-> semantic_results,
     keyword_results |-> keyword_results,
     combined_results |->
         CombineSearchResults(semantic_results, keyword_results, n_results, seed)]

\* search_similar, with the two result lists it combines
SearchSimilarFull(coll, up, mode, dist, seed, query, queryClass, n_results, where) ==
    Combined(SemanticSearch(coll, up, mode, dist, queryClass, n_results, where),
             KeywordSearch(coll, up, query, n_results, where), n_results, seed)

\* a search_similar that answers with the empty list when the embedding of
\* the query fails
SearchSimilarFailFast(coll, up, mode, dist, seed, query, queryClass, n_results, where) ==
    IF EmbedRaises(queryClass, mode) THEN <<>>
    ELSE SearchSimilarFull(coll, up, mode, dist, seed, query, queryClass, n_results, where).combined_results

\* search_similar
SearchSimilar(coll, up, mode, dist, seed, query, queryClass, n_results, where) ==
    SearchSimilarFull(coll, up, mode, dist, seed, query, queryClass, n_results, where).combined_results

\* the batches of chunks add_documents is called with
RECURSIVE SeqsUpTo(_, _)
SeqsUpTo(S, n) ==
    IF n = 0 THEN {<<>>}
    ELSE LET shorter == SeqsUpTo(S, n - 1)
         IN  shorter \cup {Append(q, e) : q \in shorter, e \in S}

PoolChunks == {ChunkPool[i] : i \in PoolIndex}
\* the chunks that are ingested: the teacher chunk, the chunk a changed data
\* file yields under the same id, and the officials chunk
IngestChunks == {ChunkPool[1], ChunkPool[2], ChunkPool[3]}
Batches == SeqsUpTo(IngestChunks, MaxBatch)

HasDuplicateIds(chunks) ==
    \E i, j \in 1..Len(chunks) : i # j /\ chunks[i].chunk_id = chunks[j].chunk_id

RECURSIVE AppendNew(_, _)
\* collection.add: an id that is already stored is skipped
AppendNew(coll, chunks) ==
    IF chunks = <<>> THEN coll
    ELSE LET chunk == Head(chunks)
         IN  AppendNew(IF \E i \in 1..Len(coll) : coll[i].id = chunk.chunk_id
                       THEN coll ELSE Append(coll, Entry(chunk)),
                       Tail(chunks))

\* add_documents that hands the documents to the collection one at a time,
\* each right after its own embedding: the first is stored when a later fails
AddDocumentsPartial(coll, up, mode, chunks) ==
    IF chunks = <<>> THEN [value |-> FALSE, collection |-> coll]
    ELSE IF EmbedRaises("document", mode)
         THEN [value |-> FALSE, collection |-> AppendNew(coll, Take(chunks, 1))]
    ELSE IF ~up \/ HasDuplicateIds(chunks) THEN [value |-> FALSE, collection |-> coll]
    ELSE [value |-> TRUE, collection |-> AppendNew(coll, chunks)]

\* the outcome of add_documents: the value it returns and the collection it leaves
AddDocumentsOutcome(coll, up, mode, chunks) ==
    IF chunks = <<>> THEN [value |-> FALSE, collection |-> coll]
    ELSE IF EmbedRaises("document", mode) THEN [value |-> FALSE, collection |-> coll]
    ELSE IF ~up \/ HasDuplicateIds(chunks) THEN [value |-> FALSE, collection |-> coll]
    ELSE [value |-> TRUE, collection |-> AppendNew(coll, chunks)]

\* the chunks whose entries a collection holds
ChunksOf(coll) ==
    [i \in 1..Len(coll) |->
        [chunk_id |-> coll[i].id, section |-> coll[i].metadata.section,
         content |-> coll[i].document,
         metadata |-> [section |-> coll[i].metadata.section,
                       length |-> coll[i].metadata.length,
                       chunk_num |-> coll[i].metadata.chunk_num]]]

\* add_documents(chunks)
AddDocuments(chunks) ==
    LET out == AddDocumentsOutcome(collection, dbUp, embedFail, chunks)
    IN  /\ collection' = out.collection
        /\ op' = "add_documents"
        /\ args' = [chunks |-> chunks]
        /\ ret' = [value |-> out.value]
        /\ UNCHANGED <<dbUp, embedFail, distance, hashSeed, original, data_file>>

\* reset_database that re-opens the collection without client.reset()
ResetKeepsCollection(coll, up) ==
    IF ~up THEN [value |-> FALSE, collection |-> coll]
    ELSE [value |-> TRUE, collection |-> coll]

\* the outcome of reset_database: client.reset() and _initialize_db()
ResetOutcome(coll, up) ==
    IF ~up THEN [value |-> FALSE, collection |-> coll]
    ELSE [value |-> TRUE, collection |-> <<>>]

\* reset_database()
ResetDatabase ==
    LET out == ResetOutcome(collection, dbUp)
    IN  /\ collection' = out.collection
        /\ op' = "reset_database"
        /\ args' = <<>>
        /\ ret' = [value |-> out.value]
        /\ original' = IF out.value THEN ChunksOf(collection) ELSE original
        /\ UNCHANGED <<dbUp, embedFail, distance, hashSeed, data_file>>

\* the dictionary get_collection_info returns ({} when count() raises)
CollectionInfo(coll, up) ==
    IF ~up THEN [failed |-> TRUE]
    ELSE [name |-> "kpi_documents", document_count |-> Len(coll)]

\* get_collection_info()
GetCollectionInfo ==
    /\ op' = "get_collection_info"
    /\ args' = <<>>
    /\ ret' = CollectionInfo(collection, dbUp)
    /\ UNCHANGED <<collection, dbUp, embedFail, distance, hashSeed, original, data_file>>

\* no source document on disk
NoDataFile == [exists |-> FALSE, sections |-> <<>>]

\* _populate_database: the data file must exist and yield chunks, and
\* add_documents must store them
PopulateDatabase(coll, up, mode, file, chunks) ==
    IF ~file.exists \/ chunks = <<>> THEN [value |-> FALSE, collection |-> coll]
    ELSE AddDocumentsOutcome(coll, up, mode, chunks)

\* the outcome of setup_system after VectorDatabase(): the collection is
\* populated when it is empty (or its count cannot be read) or on rebuild_db
SetupOutcome(coll, up, mode, file, chunks, rebuild_db) ==
    IF ~up THEN [value |-> FALSE, collection |-> coll]
    ELSE IF Len(coll) = 0 \/ rebuild_db THEN PopulateDatabase(coll, up, mode, file, chunks)
    ELSE [value |-> TRUE, collection |-> coll]

\* the documents setup_system is run on: none, and one with an officials and
\* a teachers section
SetupFiles ==
    {NoDataFile,
     [exists |-> TRUE,
      sections |-> [officials |-> ChunkPool[3].content, teachers |-> ChunkPool[1].content]]}

\* the chunk sizes KPIGPTRagSystem is constructed with
SetupConfigs == {DefaultConfig, [chunk_size |-> 30, chunk_overlap |-> 10]}

\* KPIGPTRagSystem(data_file, chunk_size, chunk_overlap).setup_system(rebuild_db);
\* GroqClient() raises without an API key, after the database is populated
SetupSystem(file, cfg, rebuild_db, api_key) ==
    \E chunks \in {IF file.exists THEN CreateChunks(file, cfg) ELSE <<>>} :
    \E out \in {SetupOutcome(collection, dbUp, embedFail, file, chunks, rebuild_db)} :
        /\ collection' = out.collection
        /\ data_file' = file
        /\ op' = "setup_system"
        /\ args' = [cfg |-> cfg, rebuild_db |-> rebuild_db]
        /\ ret' = [value |-> out.value /\ api_key, chunks |-> chunks]
        /\ UNCHANGED <<dbUp, embedFail, distance, hashSeed, original>>

\* the storage engine or the embedding model starts or stops failing
Fault ==
    /\ \E up \in BOOLEAN, mode \in {"never", "always"} :
          /\ <<up, mode>> # <<dbUp, embedFail>>
          /\ dbUp' = up
          /\ embedFail' = mode
    /\ op' = "fault"
    /\ args' = <<>>
    /\ ret' = <<>>
    /\ UNCHANGED <<collection, distance, hashSeed, original, data_file>>

DefaultDistance == [c \in QueryClasses |-> [i \in PoolIndex |-> One \div 2]]

\* a VectorDatabase constructed over an empty storage directory
InitIndex ==
    /\ collection = <<>>
    /\ dbUp = TRUE
    /\ embedFail = "never"
    /\ distance = DefaultDistance
    /\ hashSeed = 0
    /\ op = "init"
    /\ args = <<>>
    /\ ret = <<>>
    /\ original = <<>>
    /\ data_file = NoDataFile

NextIndex ==
    \/ \E chunks \in Batches \cup {original} : AddDocuments(chunks)
    \/ ResetDatabase
    \/ GetCollectionInfo
    \/ Fault

SpecIndex == InitIndex /\ [][NextIndex]_vars

(***************************************************************************)
(* setup_system, add_documents and reset_database over one storage         *)
(* directory                                                               *)
(***************************************************************************)
\* the batches add_documents is given between the runs of setup_system: a
\* changed teacher chunk, a batch of two, and a batch that repeats an id
SetupBatches ==
    {<<ChunkPool[2]>>, <<ChunkPool[1], ChunkPool[3]>>, <<ChunkPool[1], ChunkPool[2]>>}

NextSetup ==
    \/ \E file \in SetupFiles, cfg \in SetupConfigs, rebuild_db \in BOOLEAN, api_key \in BOOLEAN :
          SetupSystem(file, cfg, rebuild_db, api_key)
    \/ \E chunks \in SetupBatches : AddDocuments(chunks)
    \/ ResetDatabase

SpecSetup == InitIndex /\ [][NextSetup]_vars

(***************************************************************************)
(* search_similar over a populated collection                              *)
(***************************************************************************)
SearchQueries ==
    {"Julekha Akter Koli", "Julekha Koli phone", "Who is the principal of KPI?", "debate club"}

Filters == {None, [section |-> "teachers"], [section |-> "principal"]}

DistinctIds(chunks) == ~HasDuplicateIds(chunks)

\* the collections add_documents can build out of at most MaxCorpus chunks
Corpora ==
    {AppendNew(<<>>, chunks) : chunks \in {b \in SeqsUpTo(PoolChunks, MaxCorpus) : DistinctIds(b)}}

\* the embedding models: any distances to the stored documents
Embeddings(coll, dists) ==
    LET stored == {DocIndex(coll[i].document) : i \in 1..Len(coll)}
    IN  {[i \in PoolIndex |-> IF i \in stored THEN f[i] ELSE (19 * One) \div 10] :
            f \in [stored -> dists]}

\* the embedding models of the searched collections: every stored document
\* near or far, or every one at distance 0, embedded exactly as the query
\* is (score 1.0)
SearchEmbeddings(coll) == Embeddings(coll, NearFar) \cup Embeddings(coll, {0})

\* search_similar(query, n_results, where), called once
SearchSimilarCall(query, n_results, where) ==
    /\ op = "init"
    /\ op' = "search_similar"
    /\ args' = [query |-> query, n_results |-> n_results, where |-> where]
    /\ ret' = SearchSimilarFull(collection, dbUp, embedFail, distance, hashSeed,
                                query, "raw", n_results, where)
    /\ UNCHANGED <<collection, dbUp, embedFail, distance, hashSeed, original, data_file>>

InitSearch ==
    /\ collection \in Corpora
    /\ dbUp = TRUE
    /\ embedFail \in {"never", "always"}
    /\ IF embedFail = "never"
       THEN \E e \in SearchEmbeddings(collection) : distance = [c \in QueryClasses |-> e]
       ELSE distance = DefaultDistance
    /\ hashSeed = 0
    /\ op = "init"
    /\ args = <<>>
    /\ ret = <<>>
    /\ original = <<>>
    /\ data_file = NoDataFile

NextSearch ==
    \E query \in SearchQueries, n_results \in 1..MaxResults, where \in Filters :
        SearchSimilarCall(query, n_results, where)

SpecSearch == InitSearch /\ [][NextSearch]_vars

\* the storage engine answers and the embedding model embeds every text
Healthy == dbUp /\ embedFail = "never"

(***************************************************************************)
(* Properties of the index                                                 *)
(***************************************************************************)
\* C5: after reset_database() has returned True the collection is empty and
\* get_collection_info(), called next, reports document_count 0; and
\* add_documents called next with the chunks the collection held before the
\* reset, with the storage engine and the embedding model working, leaves
\* as many documents as it held before the reset.
ResetIdempotence ==
    [][ /\ (op' = "reset_database" /\ ret'.value) => Len(collection') = 0
        /\ (op = "reset_database" /\ ret.value /\ op' = "get_collection_info")
              => ret'.document_count = 0
        /\ (op = "reset_database" /\ ret.value /\ op' = "add_documents"
               /\ args'.chunks = original /\ dbUp /\ embedFail = "never")
              => Len(collection') = Len(original) ]_vars

\* two chunks were stored, the database was reset, and the same chunks were
\* ingested again
ResetThenReingested ==
    /\ op = "add_documents"
    /\ args.chunks = original
    /\ ret.value
    /\ Len(original) >= 2
    /\ Len(collection) = Len(original)

\* C10: add_documents during which generate_embeddings raises returns False
\* and leaves the collection as it was; so does add_documents of no chunks.
IngestionAllOrNothing ==
    [][ (op' = "add_documents" /\ (embedFail = "always" \/ args'.chunks = <<>>))
          => (ret'.value = FALSE /\ collection' = collection) ]_vars

\* the embedding model failed on a batch offered to a collection that
\* already held documents
EmbeddingFailedOnAdd ==
    /\ op = "add_documents"
    /\ embedFail = "always"
    /\ args.chunks # <<>>
    /\ ret.value = FALSE
    /\ collection # <<>>

\* C11: no two stored chunks share a chunk id, whatever setup_system (with or
\* without rebuild_db), add_documents and reset_database have done; and the
\* chunks of one create_chunks run have pairwise distinct chunk ids.
ChunkIdUniqueness ==
    /\ \A i, j \in 1..Len(collection) : collection[i].id = collection[j].id => i = j
    /\ op = "setup_system" =>
          \A i, j \in 1..Len(ret.chunks) :
              ret.chunks[i].chunk_id = ret.chunks[j].chunk_id => i = j

\* setup_system with rebuild_db ran on a collection that was already
\* populated, with a document that splits into several chunks per section
RebuiltOverPopulated ==
    /\ op = "setup_system"
    /\ args.rebuild_db
    /\ ret.value
    /\ Len(ret.chunks) >= 5
    /\ \E i \in 1..Len(collection) : collection[i].id = ret.chunks[2].chunk_id
    /\ \E i \in 1..Len(collection) : collection[i].document = ChunkPool[2].content

(***************************************************************************)
(* Properties of search_similar                                            *)
(***************************************************************************)
Indices(seq) == 1..Len(seq)

\* the places of a content in a result list
Places(results, content) == {k \in Indices(results) : results[k].content = content}

\* the score _combine_search_results gives a keyword result
Boosted(result) == Min(One, result.keyword_score + KeywordBoost)

\* C1 as claimed: a chunk that both the keyword and the semantic search
\* return appears exactly once in the combined result, with the
\* keyword-boosted score min(1.0, keyword_score + 0.2).
HybridDedupExactlyOnce ==
    op = "search_similar" =>
        \A i \in Indices(ret.keyword_results), j \in Indices(ret.semantic_results) :
            ret.keyword_results[i].content = ret.semantic_results[j].content =>
                LET occ == Places(ret.combined_results, ret.keyword_results[i].content)
                IN  /\ Cardinality(occ) = 1
                    /\ \A k \in occ : ret.combined_results[k].similarity_score
                                           = Boosted(ret.keyword_results[i])

\* C1 as amended: such a chunk appears at most once in the combined result,
\* and wherever it appears it carries the keyword-boosted score and the
\* keyword tag; it is absent only when the result is full (n_results long)
\* and every result in it scores at least the chunk's boosted score.
HybridDedupTopN ==
    op = "search_similar" =>
        \A i \in Indices(ret.keyword_results), j \in Indices(ret.semantic_results) :
            ret.keyword_results[i].content = ret.semantic_results[j].content =>
                LET occ == Places(ret.combined_results, ret.keyword_results[i].content)
                    boosted == Boosted(ret.keyword_results[i])
                IN  /\ Cardinality(occ) <= 1
                    /\ \A k \in occ :
                          /\ ret.combined_results[k].similarity_score = boosted
                          /\ ret.combined_results[k].search_method = "keyword"
                    /\ occ = {} =>
                          /\ Len(ret.combined_results) = args.n_results
                          /\ \A k \in Indices(ret.combined_results) :
                                ret.combined_results[k].similarity_score >= boosted

\* a chunk found by both searches, with a semantic score that differs from
\* its boosted keyword score, is in the combined result
FoundByBothSearches ==
    /\ op = "search_similar"
    /\ \E i \in Indices(ret.keyword_results), j \in Indices(ret.semantic_results) :
          /\ ret.keyword_results[i].content = ret.semantic_results[j].content
          /\ ret.semantic_results[j].similarity_score # Boosted(ret.keyword_results[i])
          /\ Places(ret.combined_results, ret.keyword_results[i].content) # {}

JulekhaAkterKoli == "Julekha Akter Koli"

MetadataFilterRespected ==
    (op = "search_similar" /\ Healthy /\ args.where # None)
    => \A k \in Indices(ret.combined_results) :
          ret.combined_results[k].metadata.section = args.where.section

\* the weight the claim gives a word as typed in the query: 2 when it is
\* capitalized or name-like, 1 otherwise
WeightAsTyped(word) == IF IsTitle(word) \/ AnyUpper(word) THEN 2 ELSE 1

\* the places of the words typed in the query that are longer than two
\* characters and occur, in any case, in the document
FoundLongWords(words, document) ==
    {i \in Indices(words) :
        Len(words[i]) > 2 /\ ContainsSeq(LowerSeq(Chars(document)), LowerSeq(Chars(words[i])))}

RECURSIVE SumAsTyped(_, _)
\* the sum of the weights of the words at the places S
SumAsTyped(words, S) ==
    IF S = {} THEN 0
    ELSE LET i == CHOOSE j \in S : TRUE
         IN  WeightAsTyped(words[i]) + SumAsTyped(words, S \ {i})

\* C14 as claimed: the score of a keyword result is the sum, over the query
\* words longer than two characters that occur in the chunk, of 2 for a word
\* typed capitalized or name-like and 1 for any other, divided by the number
\* of query words.
KeywordWeighting ==
    op = "search_similar" =>
        \A k \in Indices(ret.keyword_results) :
            LET words == Split(args.query)
            IN  ret.keyword_results[k].keyword_score * Len(words)
                  = One * SumAsTyped(words, FoundLongWords(words, ret.keyword_results[k].content))

\* the number of query words that occur, in any case, in the document
WordsFound(query, document) ==
    Cardinality({i \in Indices(Split(query)) :
                    ContainsSeq(LowerSeq(Chars(document)), LowerSeq(Chars(Split(query)[i])))})

\* C15 as claimed: _keyword_search returns every chunk in which at least
\* half of the query's words occur (unless the list is cut at n_results),
\* returns no chunk in which fewer occur, and sorts by descending score.
KeywordThresholdHalf ==
    (op = "search_similar" /\ dbUp) =>
        /\ \A i \in Indices(collection) :
               2 * WordsFound(args.query, collection[i].document) >= Len(Split(args.query))
                 => \/ Places(ret.keyword_results, collection[i].document) # {}
                    \/ Len(ret.keyword_results) = args.n_results
        /\ \A k \in Indices(ret.keyword_results) :
               2 * WordsFound(args.query, ret.keyword_results[k].content)
                 >= Len(Split(args.query))
        /\ \A k \in 1..(Len(ret.keyword_results) - 1) :
               ret.keyword_results[k].keyword_score >= ret.keyword_results[k + 1].keyword_score

(***************************************************************************)
(* The chunker on bounded texts                                            *)
(***************************************************************************)
ChunkWords == {"a", "bbb", "ccccc"}

\* cleaned texts: words separated by single spaces
Texts == {Join(ws) : ws \in SeqsUpTo(ChunkWords, MaxWords)}

\* KPIDataProcessor(chunk_size, chunk_overlap) with chunk_overlap < chunk_size
Configs ==
    {cfg \in [chunk_size : {4, 8, 12}, chunk_overlap : {0, 5, 10}] :
        cfg.chunk_overlap < cfg.chunk_size}

\* _create_section_chunks(text, "teachers") of a processor, called once
CreateSectionChunksCall(text, cfg) ==
    /\ op = "init"
    /\ text # ""
    /\ op' = "create_section_chunks"
    /\ args' = [text |-> text, cfg |-> cfg]
    /\ ret' = CreateSectionChunks(text, "teachers", cfg)
    /\ UNCHANGED <<collection, dbUp, embedFail, distance, hashSeed, original, data_file>>

\* _create_size_based_chunks(text) of a processor, called once
CreateSizeBasedChunksCall(text, cfg) ==
    /\ op = "init"
    /\ op' = "create_size_based_chunks"
    /\ args' = [text |-> text, cfg |-> cfg]
    /\ ret' = CreateSizeBasedChunks(text, cfg)
    /\ UNCHANGED <<collection, dbUp, embedFail, distance, hashSeed, original, data_file>>

NextChunk ==
    \E text \in Texts, cfg \in Configs :
        \/ CreateSectionChunksCall(text, cfg)
        \/ CreateSizeBasedChunksCall(text, cfg)

SpecChunk == InitIndex /\ [][NextChunk]_vars

ChunkerRan == op \in {"create_section_chunks", "create_size_based_chunks"}

\* C6 as claimed: every chunk the chunker produces is at most chunk_size
\* characters long, unless it consists of a single word.
ChunkSizeBound ==
    ChunkerRan =>
        \A i \in Indices(ret) :
            \/ Len(ret[i].content) <= args.cfg.chunk_size
            \/ Len(Split(ret[i].content)) = 1

\* the words of the chunks of a list
ChunkWordLists(chunks) == [i \in 1..Len(chunks) |-> Split(chunks[i].content)]

RECURSIVE OverlapThenNew(_, _, _, _)
\* from chunk i on, every chunk begins with k trailing words of the chunk
\* before it, for some k, and goes on with the words of the text that
\* follow the first pos words, which the chunks before it have used
OverlapThenNew(word_lists, words, i, pos) ==
    IF i > Len(word_lists) THEN TRUE
    ELSE LET before == IF i = 1 THEN <<>> ELSE word_lists[i - 1]
             chunk == word_lists[i]
         IN  \E k \in 0..Min(Len(before), Len(chunk) - 1) :
                 /\ SubSeq(chunk, 1, k) = SubSeq(before, Len(before) - k + 1, Len(before))
                 /\ pos + Len(chunk) - k <= Len(words)
                 /\ SubSeq(chunk, k + 1, Len(chunk)) = SubSeq(words, pos + 1, pos + Len(chunk) - k)
                 /\ OverlapThenNew(word_lists, words, i + 1, pos + Len(chunk) - k)

\* C13: in the chunks of one word-based or size-only split, the words that
\* begin a chunk, up to its first new word, are the trailing words of the
\* chunk before it, in the same order.
OverlapNonRegression ==
    ChunkerRan => OverlapThenNew(ChunkWordLists(ret), Split(args.text), 1, 0)

\* a split in which a chunk of three words or more is followed by a chunk
\* that repeats only a part of it
OverlapCarried ==
    /\ ChunkerRan
    /\ \E i \in 1..(Len(ret) - 1) :
          /\ Len(Split(ret[i].content)) >= 3
          /\ Len(Split(ret[i + 1].content)) = 2

(***************************************************************************)
(* KPIGPTRagSystem: the retrieval orchestrator                             *)
(***************************************************************************)
\* any(word in q for word in words), q as characters
ContainsAnySeq(cs, words) == \E w \in words : ContainsSeq(cs, Chars(w))

\* any(word in q for word in words)
ContainsAny(q, words) == ContainsAnySeq(Chars(q), words)

\* _section_filter_for_query, for q = query.lower() as characters
SectionFilterForLower(q) ==
    IF ContainsAnySeq(q, {"captain", "class captain", "class captains"})
    THEN [section |-> "class_captains"]
    ELSE IF ContainsAnySeq(q, {"teacher", "instructor", "faculty"})
    THEN [section |-> "teachers"]
    ELSE IF ContainsAnySeq(q, {"official", "staff"})
    THEN [section |-> "officials"]
    ELSE IF ContainsAnySeq(q, {"principal", "principle", "head of institute"})
    THEN [section |-> "principal"]
    ELSE IF ContainsAnySeq(q, {"club", "bncc", "rover", "scout", "debate"})
    THEN [section |-> "clubs"]
    ELSE IF \E words \in {SplitSeq(q)} :
               /\ Len(words) >= 2
               /\ \E i \in 1..Len(words) :
                     Capitalize(Strip(words[i])) \in {"Julekha", "Koli", "Akter"}
    THEN [section |-> "teachers"]
    ELSE None

\* _section_filter_for_query
SectionFilterForQuery(query) == SectionFilterForLower(LowerSeq(Chars(query)))

\* the section a filter names ("" for no filter)
FilterSection(where) == IF where = None THEN "" ELSE where.section

\* len(words) >= 2 and any(word[0].isupper() for word in words if word)
HasNamePattern(words) ==
    Len(words) >= 2 /\ \E i \in 1..Len(words) : IsUpperChar(Head(words[i]))

\* _is_person_query
IsPersonQuery(query) ==
    \/ ContainsAny(Lower(query), {"who is", "tell me about", "information about",
                                  "contact", "details about", "about"})
    \/ HasNamePattern(Split(query))

\* the query is about the principal (line 268)
NamesPrincipal(user_query) == ContainsAny(Lower(user_query), {"principal", "principle"})

RECURSIVE RemovePhrases(_, _)
\* for phrase in phrases: clean_query = clean_query.replace(phrase, '').strip()
RemovePhrases(clean_query, phrases) ==
    IF phrases = <<>> \/ clean_query = "" THEN clean_query
    ELSE RemovePhrases(Strip(Remove(clean_query, Head(phrases))), Tail(phrases))

RECURSIVE Distinct(_, _)
\* the elements of seq that are not in seen, each once, in order
Distinct(seq, seen) ==
    IF seq = <<>> THEN <<>>
    ELSE IF Head(seq) \in seen THEN Distinct(Tail(seq), seen)
         ELSE <<Head(seq)>> \o Distinct(Tail(seq), seen \cup {Head(seq)})

\* the slots of the hash table of a small set
SetTableSize == 32

\* the distinct strings elems in the order of their hash slots
BySlot(elems, seed) ==
    SortDesc(elems, [i \in 1..Len(elems) |-> 0 - (StrHash(seed, elems[i]) % SetTableSize)])

\* list(set(seq)): the distinct strings in the order of their hash slots,
\* which the hash seed of the process decides
ListOfSet(seq, seed) == BySlot(Distinct(seq, {}), seed)

\* the eight rewritten queries of clean_query, whose words are parts
ExpandedQueries(clean_query, parts) ==
    << clean_query \o " teacher",
       clean_query \o " instructor",
       clean_query \o " staff",
       clean_query \o " official",
       clean_query \o " department",
       clean_query \o " contact",
       IF parts # <<>> THEN parts[1] \o " instructor" ELSE "instructor",
       IF parts # <<>> THEN parts[Len(parts)] \o " teacher" ELSE "teacher" >>

\* [q.strip() for q in expanded_queries if q.strip()]
StrippedNonEmpty(expanded_queries) ==
    SelectSeq([i \in 1..Len(expanded_queries) |-> Strip(expanded_queries[i])],
              LAMBDA q : q # "")

\* the rewritten queries of a cleaned query before duplicates are removed
QueriesOfClean(clean_query) ==
    StrippedNonEmpty(ExpandedQueries(clean_query, Split(clean_query)))

\* the rewritten queries before duplicates are removed
PersonQueryList(original_query) ==
    QueriesOfClean(RemovePhrases(original_query,
                       <<"who is", "tell me about", "information about", "about",
                         "details about", "?">>))

\* _generate_person_queries
GeneratePersonQueries(original_query, seed) ==
    ListOfSet(PersonQueryList(original_query), seed)

\* the words of the query _contains_person_name looks for
NameWords(query) ==
    SelectSeq(SplitSeq(StripSeq(RemoveSeq(RemoveSeq(RemoveSeq(LowerSeq(Chars(query)),
                  Chars("who is")), Chars("tell me about")), Chars("?")))),
              LAMBDA word : Len(word) > 2 /\ IsAlpha(word))

\* sum(1 for name_word in name_words if name_word in content_lower)
NameMatches(name_words, content_lower) ==
    Cardinality({i \in 1..Len(name_words) : ContainsSeq(content_lower, Chars(name_words[i]))})

\* a decision that looks for the lowercased name words in the content as it
\* is written
ContainsNameWordsCased(content, name_words) ==
    IF name_words = <<>> THEN FALSE
    ELSE NameMatches(name_words, Chars(content)) >= Min(2, Len(name_words))

\* the decision of _contains_person_name for the name words of the query
ContainsNameWords(content, name_words) ==
    IF name_words = <<>> THEN FALSE
    ELSE NameMatches(name_words, LowerSeq(Chars(content))) >= Min(2, Len(name_words))

\* _contains_person_name
ContainsPersonName(content, query) == ContainsNameWords(content, NameWords(query))

\* the retrieved docs _inject_section_docs makes of the chunks of a section
InjectedDocs(section_chunks, section_name) ==
    [i \in 1..Len(section_chunks) |->
        [content |-> section_chunks[i].content,
         metadata |-> [section |-> section_name, injected |-> TRUE],
         similarity_score |-> (99 * One) \div 100]]

\* _inject_section_docs: a data file that cannot be read raises, and every
\* exception ends in the empty list
InjectSectionDocs(section_name, file, max_results, cfg) ==
    IF ~file.exists THEN <<>>
    ELSE IF SectionText(file, section_name) = "" THEN <<>>
    ELSE InjectedDocs(Take(CreateSectionChunks(SectionText(file, section_name),
                                               section_name, cfg),
                           max_results),
                      section_name)

\* the acceptance floors of _retrieve_with_expansion
PrincipalFloor == 0 - (7 * One) \div 10
DirectFloor == (2 * One) \div 10
BestFloor == 0 - (7 * One) \div 10
PrimaryFloor == 0 - (6 * One) \div 10

\* the index handle and its environment, as one search sees them
Db(coll, up, mode, dist, seed) ==
    [coll |-> coll, up |-> up, mode |-> mode, dist |-> dist, seed |-> seed]

\* the query class the embedding model sees: the user's own words or a rewrite
QueryClass(query, user_query) == IF query = user_query THEN "raw" ELSE "rewrite"

\* self.vector_db.search_similar(query, n_results, where) within one retrieval
Search(db, user_query, query, n_results, where) ==
    SearchSimilar(db.coll, db.up, db.mode, db.dist, db.seed, query,
                  QueryClass(query, user_query), n_results, where)

\* the record of one search_similar call
Issued(query, n_results, where) ==
    [query |-> query, n_results |-> n_results, where |-> where]

\* a finished retrieval and an unfinished one
Return(result, searches, path) ==
    [done |-> TRUE, result |-> result, searches |-> searches, path |-> path]
Continue(searches) ==
    [done |-> FALSE, result |-> <<>>, searches |-> searches, path |-> ""]

TopScore(results) == results[1].similarity_score

\* results and results[0]['similarity_score'] > floor
Above(results, floor) == results # <<>> /\ TopScore(results) > floor

RECURSIVE PrincipalLoop(_, _, _, _, _)
RECURSIVE PrincipalPass(_, _, _, _, _, _)
\* for pq in principal_queries
PrincipalLoop(queries, searches, db, user_query, max_results) ==
    IF queries = <<>> THEN Continue(searches)
    ELSE PrincipalPass(Search(db, user_query, Head(queries), max_results, None),
                       queries, searches, db, user_query, max_results)

\* one pass of that loop, for the results of principal query Head(queries)
PrincipalPass(results, queries, searches, db, user_query, max_results) ==
    IF Above(results, DirectFloor)
    THEN Return(results, Append(searches, Issued(Head(queries), max_results, None)),
                "principal_direct")
    ELSE PrincipalLoop(Tail(queries),
                       Append(searches, Issued(Head(queries), max_results, None)),
                       db, user_query, max_results)

\* what follows the section-filtered search of a principal query
AfterPrincipalSearch(retrieved_docs, section_filter, db, user_query, max_results) ==
    IF Above(retrieved_docs, PrincipalFloor)
    THEN Return(retrieved_docs, <<Issued(user_query, max_results, section_filter)>>,
                "principal_section")
    ELSE PrincipalLoop(<<"principal Sheikh Mustafizur Rahman",
                         "Sheikh Mustafizur Rahman principal KPI",
                         "head of institute principal">>,
                       <<Issued(user_query, max_results, section_filter)>>,
                       db, user_query, max_results)

\* the special handling of principal queries
PrincipalStage(section_filter, db, user_query, max_results) ==
    IF FilterSection(section_filter) # "principal" THEN Continue(<<>>)
    ELSE AfterPrincipalSearch(Search(db, user_query, user_query, max_results, section_filter),
                              section_filter, db, user_query, max_results)

\* if section_docs: return section_docs
AfterInjection(section_docs, searches) ==
    IF section_docs # <<>> THEN Return(section_docs, searches, "injected")
    ELSE Continue(searches)

\* the section injection for class_captains queries
CaptainsStage(section_filter, searches, file, max_results, cfg) ==
    IF FilterSection(section_filter) # "class_captains" THEN Continue(searches)
    ELSE AfterInjection(InjectSectionDocs("class_captains", file, max_results, cfg),
                        searches)

\* the best results so far, and none yet with the score to beat
Best(results) == [set |-> TRUE, results |-> results, score |-> TopScore(results)]
NoBest(score) == [set |-> FALSE, results |-> <<>>, score |-> score]

RECURSIVE ExpansionLoop(_, _, _, _, _, _)
RECURSIVE ExpansionPass(_, _, _, _, _, _, _)
\* for expanded_query in expanded_queries: the first results that contain
\* the person's name end the loop; best holds the results whose top score
\* is the highest so far
ExpansionLoop(queries, best, searches, db, user_query, max_results) ==
    IF queries = <<>>
    THEN [found |-> FALSE, results |-> <<>>, best |-> best, searches |-> searches]
    ELSE ExpansionPass(Search(db, user_query, Head(queries), max_results, None),
                       queries, best, searches, db, user_query, max_results)

\* one pass of that loop, for the results of expanded query Head(queries)
ExpansionPass(results, queries, best, searches, db, user_query, max_results) ==
    IF \E i \in 1..Len(results) : ContainsPersonName(results[i].content, user_query)
    THEN [found |-> TRUE, results |-> Take(results, max_results), best |-> best,
          searches |-> Append(searches, Issued(Head(queries), max_results, None))]
    ELSE ExpansionLoop(Tail(queries),
                       IF Above(results, best.score) THEN Best(results) ELSE best,
                       Append(searches, Issued(Head(queries), max_results, None)),
                       db, user_query, max_results)

\* what follows the expanded searches that come before the primary attempt
AfterExpansion(loop, max_results) ==
    IF loop.found THEN Return(loop.results, loop.searches, "confirmed")
    ELSE IF loop.best.set /\ loop.best.score > BestFloor
    THEN Return(Take(loop.best.results, max_results), loop.searches, "best_expansion")
    ELSE Continue(loop.searches)

\* the expanded searches that come before the primary attempt
PersonStage(searches, db, user_query, max_results) ==
    IF ~(IsPersonQuery(user_query) /\ ~NamesPrincipal(user_query))
    THEN Continue(searches)
    ELSE AfterExpansion(ExpansionLoop(GeneratePersonQueries(user_query, db.seed),
                                      NoBest(0 - 999 * One), searches, db, user_query,
                                      max_results),
                        max_results)

\* what follows the expanded searches that come after the primary attempt
AfterLateExpansion(loop, retrieved_docs) ==
    IF loop.found THEN Return(loop.results, loop.searches, "confirmed_late")
    ELSE IF loop.best.set THEN Return(loop.best.results, loop.searches, "best_expansion_late")
    ELSE Return(retrieved_docs, loop.searches, "fallback")

\* what follows the primary search
AfterPrimarySearch(retrieved_docs, issued, db, user_query, max_results) ==
    IF Above(retrieved_docs, PrimaryFloor) THEN Return(retrieved_docs, issued, "primary")
    ELSE IF ~IsPersonQuery(user_query) THEN Return(retrieved_docs, issued, "fallback")
    ELSE AfterLateExpansion(ExpansionLoop(GeneratePersonQueries(user_query, db.seed),
                                          NoBest(0 - One), issued, db, user_query,
                                          max_results),
                            retrieved_docs)

\* a primary attempt that searches every section
PrimaryStageUnfiltered(section_filter, searches, db, user_query, max_results) ==
    AfterPrimarySearch(Search(db, user_query, user_query, max_results, None),
                       Append(searches, Issued(user_query, max_results, None)),
                       db, user_query, max_results)

\* the primary attempt and what follows it
PrimaryStage(section_filter, searches, db, user_query, max_results) ==
    AfterPrimarySearch(Search(db, user_query, user_query, max_results, section_filter),
                       Append(searches, Issued(user_query, max_results, section_filter)),
                       db, user_query, max_results)

\* _retrieve_with_expansion after the expanded searches
AfterPerson(person, section_filter, db, user_query, max_results) ==
    IF person.done THEN person
    ELSE PrimaryStage(section_filter, person.searches, db, user_query, max_results)

\* _retrieve_with_expansion after the section injection
AfterCaptains(captains, section_filter, db, user_query, max_results) ==
    IF captains.done THEN captains
    ELSE AfterPerson(PersonStage(captains.searches, db, user_query, max_results),
                     section_filter, db, user_query, max_results)

\* _retrieve_with_expansion after the handling of principal queries
AfterPrincipal(principal, section_filter, db, user_query, file, max_results, cfg) ==
    IF principal.done THEN principal
    ELSE AfterCaptains(CaptainsStage(section_filter, principal.searches, file,
                                     max_results, cfg),
                       section_filter, db, user_query, max_results)

\* _retrieve_with_expansion, for the section filter of the query
RetrieveFiltered(section_filter, user_query, db, file, max_results, cfg) ==
    AfterPrincipal(PrincipalStage(section_filter, db, user_query, max_results),
                   section_filter, db, user_query, file, max_results, cfg)

\* _retrieve_with_expansion: search_similar and _inject_section_docs catch
\* every exception themselves, so the except branch is never entered
RetrieveWithExpansion(user_query, db, file, max_results, cfg) ==
    RetrieveFiltered(SectionFilterForQuery(user_query), user_query, db, file,
                     max_results, cfg)

(***************************************************************************)
(* _retrieve_with_expansion over a populated or an empty collection        *)
(***************************************************************************)
UserQueries ==
    {"Julekha Koli", "Who is Julekha Akter Koli?", "Tell me about Julekha Koli",
     "Who is the principal of KPI?", "class captain list", "debate club"}

\* the documents of the retrieval runs: the teacher, the officials and the
\* principal chunk
RetrievalChunks == {ChunkPool[1], ChunkPool[3], ChunkPool[4]}

\* the collections of at most MaxStored of them, ingested in the order of
\* the pool; the empty one is a freshly reset index
RetrievalCorpora ==
    {AppendNew(<<>>, SelectSeq(ChunkPool, LAMBDA c : c \in chunks)) :
        chunks \in {b \in SUBSET RetrievalChunks : Cardinality(b) <= MaxStored}}

\* the source documents: none, and one with a class_captains section
DataFiles ==
    {NoDataFile,
     [exists |-> TRUE, sections |-> [class_captains |-> "CST 1st shift: Rahim Uddin"]]}

\* the hash seeds a process can start with
Seeds == 0..MaxSeed

\* the storage engine and the embedding model: both work, the storage
\* engine is unreachable, the embedding model fails on every text, or it
\* fails on the rewritten queries only
Environments ==
    {<<TRUE, "never">>, <<FALSE, "never">>, <<TRUE, "always">>, <<TRUE, "rewrites">>}

\* _retrieve_with_expansion(user_query), and a second call that repeats it
RetrieveCall(user_query) ==
    /\ op = "init" \/ (op = "retrieve" /\ ret.calls = 1 /\ args.user_query = user_query)
    /\ op' = "retrieve"
    /\ args' = [user_query |-> user_query]
    /\ \E out \in {RetrieveWithExpansion(user_query,
                        Db(collection, dbUp, embedFail, distance, hashSeed),
                        data_file, MaxResults, DefaultConfig)} :
          ret' = [result |-> out.result, searches |-> out.searches, path |-> out.path,
                  raised |-> FALSE,
                  calls |-> IF op = "init" THEN 1 ELSE 2,
                  previous |-> IF op = "init" THEN <<>> ELSE ret.result]
    /\ UNCHANGED <<collection, dbUp, embedFail, distance, hashSeed, original, data_file>>

\* the process ends and the program is started again: the collection is on
\* disk, the hash seed is drawn anew
Restart ==
    /\ op = "retrieve"
    /\ ret.calls = 1
    /\ \E seed \in Seeds : seed # hashSeed /\ hashSeed' = seed
    /\ UNCHANGED <<collection, dbUp, embedFail, distance, op, args, ret, original,
                   data_file>>

\* the distances of a working embedding model: each stored chunk near or
\* far, and the rewritten queries either like the user's own (0) or at one
\* distance from every chunk: 1.9 (score -0.9) or 2.5 (score -1.5)
RetrievalDistances(coll) ==
    {[c \in QueryClasses |->
         IF c = "rewrite" /\ far # 0 THEN [i \in PoolIndex |-> far] ELSE e] :
        e \in Embeddings(coll, NearFar), far \in {0, (19 * One) \div 10, (5 * One) \div 2}}

InitRetrieve ==
    /\ collection \in RetrievalCorpora
    /\ \E env \in Environments : dbUp = env[1] /\ embedFail = env[2]
    /\ IF dbUp /\ embedFail = "never"
       THEN distance \in RetrievalDistances(collection)
       ELSE distance = DefaultDistance
    /\ hashSeed = 0
    /\ op = "init"
    /\ args = <<>>
    /\ ret = <<>>
    /\ original = <<>>
    /\ data_file \in DataFiles

NextRetrieve ==
    \/ \E user_query \in UserQueries : RetrieveCall(user_query)
    \/ Restart

SpecRetrieve == InitRetrieve /\ [][NextRetrieve]_vars

(***************************************************************************)
(* Properties of _retrieve_with_expansion                                  *)
(***************************************************************************)
\* the contents of a result list
Contents(results) == {results[i].content : i \in Indices(results)}

\* C3 Determinism: a second call of _retrieve_with_expansion with the same
\* query on the same healthy index returns the same ordered list as the
\* first, also when the program was started again in between
RetrievalDeterminism ==
    (op = "retrieve" /\ Healthy /\ ret.calls = 2) => ret.result = ret.previous

\* C4 Empty-corpus safety: on a healthy index whose collection holds no
\* chunk, _retrieve_with_expansion returns an empty list and raises nothing
EmptyCorpusSafety ==
    (op = "retrieve" /\ Healthy /\ collection = <<>>) => (ret.result = <<>> /\ ~ret.raised)

\* the name tokens _contains_person_name extracts from a query
NameTokens(query) == {NameWords(query)[i] : i \in Indices(NameWords(query))}

\* the name tokens of the query that the content contains
TokensIn(content, query) == {word \in NameTokens(query) : Contains(Lower(content), word)}

\* the raw-query search of a retrieval: the user's words under the section
\* filter, as line 298 issues it
RawSearch(user_query) ==
    Search(Db(collection, dbUp, embedFail, distance, hashSeed), user_query, user_query,
           MaxResults, SectionFilterForQuery(user_query))

\* the raw-query search does not return the document above the floor
BelowFloor(document, user_query) ==
    \A i \in Indices(RawSearch(user_query)) :
        RawSearch(user_query)[i].content = document
            => RawSearch(user_query)[i].similarity_score <= PrimaryFloor

\* the chunk that is the record of the teacher the person queries ask for
TeacherRecord == ChunkPool[1].content

\* C7 Name-expansion recovery: after a person query on a healthy index
\* that stores the teacher's record, if the record holds at least 2 name
\* tokens of the query and the raw-query search leaves it below the floor,
\* the record is in the returned list
NameExpansionRecovery ==
    (/\ op = "retrieve" /\ Healthy /\ IsPersonQuery(args.user_query)
     /\ TeacherRecord \in {collection[k].document : k \in Indices(collection)}
     /\ Cardinality(TokensIn(TeacherRecord, args.user_query)) >= 2
     /\ BelowFloor(TeacherRecord, args.user_query))
        => TeacherRecord \in Contents(ret.result)

\* C9 Failure vs. empty: when the storage engine is unreachable or the
\* embedding model fails on every text, _retrieve_with_expansion raises
FailurePropagates ==
    (op = "retrieve" /\ ~Healthy) => ret.raised

\* C12 as claimed: every result _retrieve_with_expansion returns, on every
\* path, carries content, its section (in its metadata), similarity_score
\* and a search_method tag.
ResultRecordShape ==
    op = "retrieve" =>
        \A k \in Indices(ret.result) :
            /\ {"content", "similarity_score", "search_method"} \subseteq DOMAIN ret.result[k]
            /\ \/ "section" \in DOMAIN ret.result[k]
               \/ /\ "metadata" \in DOMAIN ret.result[k]
                  /\ "section" \in DOMAIN ret.result[k].metadata

\* the rewritten queries of the expansion battery
Rewrites(user_query) ==
    {PersonQueryList(user_query)[i] : i \in Indices(PersonQueryList(user_query))}

\* C16 as claimed: on a healthy index, every rewritten query is issued after
\* a search of the raw query, and only for a person-focused query whose
\* raw-query search is empty or tops at or below the acceptance floor; and
\* when the raw-query search clears the floor its results are returned.
OrchestrationOrder ==
    (op = "retrieve" /\ Healthy) =>
        /\ \A j \in Indices(ret.searches) :
               ret.searches[j].query \in Rewrites(args.user_query)
                 => /\ \E i \in 1..(j - 1) : ret.searches[i].query = args.user_query
                    /\ IsPersonQuery(args.user_query)
                    /\ ~Above(RawSearch(args.user_query), PrimaryFloor)
        /\ Above(RawSearch(args.user_query), PrimaryFloor)
              => ret.result = RawSearch(args.user_query)

\* the paths of _retrieve_with_expansion that pass through the primary attempt
PrimaryPaths == {"primary", "fallback", "confirmed_late", "best_expansion_late"}

\* C17 as claimed: every search of the raw user query, the primary attempt
\* among them, is issued with no metadata filter and asks for
\* max_retrieval_results results.
PrimaryUnfiltered ==
    op = "retrieve" =>
        /\ ret.path \in PrimaryPaths
              => \E i \in Indices(ret.searches) : ret.searches[i].query = args.user_query
        /\ \A i \in Indices(ret.searches) :
               ret.searches[i].query = args.user_query
                 => /\ ret.searches[i].where = None
                    /\ ret.searches[i].n_results = MaxResults

\* C17 as amended: every search of the raw user query, the primary attempt
\* among them, is issued with the section filter _section_filter_for_query
\* gives for the query (none when it recognises no section) and asks for
\* max_retrieval_results results.
PrimarySectionFiltered ==
    op = "retrieve" =>
        /\ ret.path \in PrimaryPaths
              => \E i \in Indices(ret.searches) : ret.searches[i].query = args.user_query
        /\ \A i \in Indices(ret.searches) :
               ret.searches[i].query = args.user_query
                 => /\ ret.searches[i].where = SectionFilterForQuery(args.user_query)
                    /\ ret.searches[i].n_results = MaxResults

\* the primary attempt was made, on a populated healthy index, for a query
\* that has a section filter
FilteredPrimaryAttempt ==
    /\ op = "retrieve"
    /\ Healthy
    /\ collection # <<>>
    /\ ret.path \in PrimaryPaths
    /\ \E i \in Indices(ret.searches) :
          ret.searches[i].query = args.user_query /\ ret.searches[i].where # None

\* the content holds, in any case, at least min(2, N) of the N tokens, and
\* N is not 0
HoldsTokens(content, tokens) ==
    /\ tokens # {}
    /\ Cardinality({word \in tokens : Contains(Lower(content), word)})
         >= Min(2, Cardinality(tokens))

\* the content holds that many of the name tokens of the query
HoldsNameTokens(content, query) == HoldsTokens(content, NameTokens(query))

ExpansionResults(user_query, rewrite) ==
    Search(Db(collection, dbUp, embedFail, distance, hashSeed), user_query, rewrite,
           MaxResults, None)

\* no result of results passes the name test of the query
Unconfirmed(results, user_query) ==
    \A k \in Indices(results) : ~HoldsNameTokens(results[k].content, user_query)

\* C19 as claimed: on a healthy index, when rewritten queries were issued,
\* none of them produced a confirmed name match and one of them returned
\* results, the list returned is that of a rewritten query whose top
\* similarity_score is the highest of all, however negative.
FallbackRanking ==
    (/\ op = "retrieve" /\ Healthy
     /\ \E j \in Indices(ret.searches) : ret.searches[j].query \in Rewrites(args.user_query)
     /\ \A q \in Rewrites(args.user_query) :
            Unconfirmed(ExpansionResults(args.user_query, q), args.user_query)
     /\ \E q \in Rewrites(args.user_query) : ExpansionResults(args.user_query, q) # <<>>)
    => \E q \in Rewrites(args.user_query) :
          /\ ExpansionResults(args.user_query, q) # <<>>
          /\ ret.result = ExpansionResults(args.user_query, q)
          /\ \A other \in Rewrites(args.user_query) :
                ExpansionResults(args.user_query, other) # <<>>
                  => TopScore(ExpansionResults(args.user_query, other))
                       <= TopScore(ExpansionResults(args.user_query, q))

\* C20 as claimed: on a healthy index every call ends with the list of a
\* rewritten query that was issued and returned results (a confirmed or a
\* best-effort match), or else with exactly the list of the raw-query search
\* (the accepted primary attempt or the final fallback, possibly empty).
TerminalStates ==
    (op = "retrieve" /\ Healthy) =>
        \/ ret.result = RawSearch(args.user_query)
        \/ \E j \in Indices(ret.searches) :
              /\ ret.searches[j].query # args.user_query
              /\ ret.result # <<>>
              /\ ret.result = ExpansionResults(args.user_query, ret.searches[j].query)

\* the places of the searches issued for query
IssuedAt(query) == {j \in Indices(ret.searches) : ret.searches[j].query = query}

\* C21 as claimed: on a healthy index, one call issues each rewritten query
\* of the battery at most once, and issues at most 1 + battery size searches.
BoundedBattery ==
    (op = "retrieve" /\ Healthy) =>
        /\ \A q \in Rewrites(args.user_query) : Cardinality(IssuedAt(q)) <= 1
        /\ Len(ret.searches) <= 1 + Cardinality(Rewrites(args.user_query))

\* the result list of the j-th search the call issued
IssuedResults(j) ==
    Search(Db(collection, dbUp, embedFail, distance, hashSeed), args.user_query,
           ret.searches[j].query, ret.searches[j].n_results, ret.searches[j].where)

\* C26: when the embedding model fails on the rewritten queries (or on every
\* text) and the storage engine works, the call does not raise, every
\* rewritten query issued returns exactly the documents the keyword search
\* finds for it, and unless an expansion was returned as a confirmed match
\* every rewritten query of the battery is issued once the first one was.
AttemptFailuresAbsorbed ==
    (op = "retrieve" /\ dbUp /\ embedFail \in {"always", "rewrites"}) =>
        LET battery == Rewrites(args.user_query)
            issued == {ret.searches[j].query : j \in Indices(ret.searches)}
        IN /\ ~ret.raised
           /\ \A j \in Indices(ret.searches) :
                  ret.searches[j].query \in battery
                    => Contents(IssuedResults(j))
                         = Contents(KeywordSearch(collection, dbUp, ret.searches[j].query,
                                                  ret.searches[j].n_results, None))
           /\ (battery \cap issued # {} /\ ret.path \notin {"confirmed", "confirmed_late"})
                 => battery \subseteq issued

\* the embedding model failed on every rewritten query over a collection
\* that holds documents, and the whole battery was issued
BatteryRanThroughFailures ==
    /\ op = "retrieve" /\ dbUp /\ embedFail = "rewrites"
    /\ collection # <<>>
    /\ Rewrites(args.user_query) # {}
    /\ \A q \in Rewrites(args.user_query) : IssuedAt(q) # {}

\* C27 as claimed: for a query that contains 'principal' or 'principle', no
\* rewritten query of _generate_person_queries is issued.
PrincipalSkipsExpansion ==
    (op = "retrieve" /\ NamesPrincipal(args.user_query)) =>
        \A q \in Rewrites(args.user_query) : IssuedAt(q) = {}

\* C28: every search_similar call issued with n_results returns at most
\* n_results results, and _retrieve_with_expansion returns at most
\* max_retrieval_results results, whatever the path.
ResultCountBound ==
    op = "retrieve" =>
        /\ Len(ret.result) <= MaxResults
        /\ \A j \in Indices(ret.searches) :
               Len(IssuedResults(j)) <= ret.searches[j].n_results

\* a call returned max_retrieval_results results from a collection in which
\* the two searches of one query found more documents than that
ResultsCutToBound ==
    /\ op = "retrieve" /\ Healthy
    /\ Len(ret.result) = MaxResults
    /\ \E j \in Indices(ret.searches) :
          Cardinality(Contents(SemanticSearch(collection, dbUp, embedFail, distance,
                                              QueryClass(ret.searches[j].query, args.user_query),
                                              ret.searches[j].n_results, ret.searches[j].where))
                      \cup Contents(KeywordSearch(collection, dbUp, ret.searches[j].query,
                                                  ret.searches[j].n_results,
                                                  ret.searches[j].where)))
            > MaxResults

(***************************************************************************)
(* Properties of the chunker                                               *)
(***************************************************************************)
RECURSIVE CarriesTenth(_, _, _, _, _)
\* from chunk i on, every chunk after the first begins with the
\* min(chunk_overlap // 10, words of the chunk before it) trailing words of
\* the chunk before it and goes on with the words of the text that follow
\* the first pos words
CarriesTenth(word_lists, words, i, pos, chunk_overlap) ==
    IF i > Len(word_lists) THEN TRUE
    ELSE LET before == IF i = 1 THEN <<>> ELSE word_lists[i - 1]
             chunk == word_lists[i]
             k == Min(chunk_overlap \div 10, Len(before))
         IN  /\ k < Len(chunk)
             /\ SubSeq(chunk, 1, k) = SubSeq(before, Len(before) - k + 1, Len(before))
             /\ pos + Len(chunk) - k <= Len(words)
             /\ SubSeq(chunk, k + 1, Len(chunk)) = SubSeq(words, pos + 1, pos + Len(chunk) - k)
             /\ CarriesTenth(word_lists, words, i + 1, pos + Len(chunk) - k, chunk_overlap)

\* C23 as claimed: in a word-based or size-only split, the chunk that
\* follows a closed chunk carries over min(chunk_overlap // 10, number of
\* words of the closed chunk) of its trailing words, for every
\* chunk_overlap >= 0.
OverlapHeuristic ==
    ChunkerRan =>
        CarriesTenth(ChunkWordLists(ret), Split(args.text), 1, 0, args.cfg.chunk_overlap)

RECURSIVE NewWordsCover(_, _, _, _)
\* from chunk i on, every chunk is some trailing words of the chunk before
\* it followed by at least one new word, and the new words of the chunks,
\* in order, are the words of the text after the first pos ones, to the last
NewWordsCover(word_lists, words, i, pos) ==
    IF i > Len(word_lists) THEN pos = Len(words)
    ELSE LET before == IF i = 1 THEN <<>> ELSE word_lists[i - 1]
             chunk == word_lists[i]
         IN  \E k \in 0..Min(Len(before), Len(chunk) - 1) :
                 /\ SubSeq(chunk, 1, k) = SubSeq(before, Len(before) - k + 1, Len(before))
                 /\ pos + Len(chunk) - k <= Len(words)
                 /\ SubSeq(chunk, k + 1, Len(chunk)) = SubSeq(words, pos + 1, pos + Len(chunk) - k)
                 /\ NewWordsCover(word_lists, words, i + 1, pos + Len(chunk) - k)

\* C29: for a text longer than chunk_size, the chunks without their
\* carried-over words, concatenated in order, are exactly the words of the
\* text, and every chunk after the first holds at least one new word.
NoWordLost ==
    (ChunkerRan /\ Len(args.text) > args.cfg.chunk_size) =>
        NewWordsCover(ChunkWordLists(ret), Split(args.text), 1, 0)

\* a text longer than chunk_size was split into three chunks or more, one
\* of which carries words over
SplitWithOverlap ==
    /\ ChunkerRan
    /\ Len(args.text) > args.cfg.chunk_size
    /\ Len(ret) >= 3
    /\ \E i \in 1..(Len(ret) - 1) : Len(Split(ret[i + 1].content)) >= 2

\* C30 as claimed: every chunk of the chunker has a metadata length equal to
\* the number of characters of its content and a sequence number that is the
\* numeric suffix of its chunk_id, the numbers running 0, 1, 2, ...
ChunkMetadataConsistency ==
    ChunkerRan =>
        \A i \in Indices(ret) :
            /\ ret[i].metadata.length = Len(ret[i].content)
            /\ "chunk_num" \in DOMAIN ret[i].metadata
            /\ ret[i].metadata.chunk_num = i - 1
            /\ ret[i].chunk_id \in {"teachers_" \o ToString(i - 1), "chunk_" \o ToString(i - 1)}

\* C25: when the structure-aware split of create_chunks yields fewer than 5
\* chunks, the chunks returned are the size-only split of the whole
\* document, all of section 'general' and none of them a structure-aware
\* chunk; when it yields 5 or more, no chunk returned is of section
\* 'general'.
FallbackChunking ==
    (op = "setup_system" /\ data_file.exists) =>
        LET structured == StructuredChunks(data_file, 1, args.cfg)
        IN  IF Len(structured) < 5
            THEN /\ ret.chunks = CreateSizeBasedChunks(FileText(data_file), args.cfg)
                 /\ \A i \in Indices(ret.chunks) :
                        /\ ret.chunks[i].section = "general"
                        /\ \A k \in Indices(structured) : ret.chunks[i] # structured[k]
            ELSE \A i \in Indices(ret.chunks) : ret.chunks[i].section # "general"

\* create_chunks fell back to the size-only split and dropped the
\* structure-aware chunks it had
FellBackToSizeOnly ==
    /\ op = "setup_system" /\ data_file.exists
    /\ StructuredChunks(data_file, 1, args.cfg) # <<>>
    /\ Len(StructuredChunks(data_file, 1, args.cfg)) < 5
    /\ ret.chunks # <<>>

(***************************************************************************)
(* Properties of _combine_search_results                                   *)
(***************************************************************************)
\* the place of the result with this content in a list of results
PlaceOf(results, content) ==
    CHOOSE k \in Indices(results) :
        /\ results[k].content = content
        /\ \A l \in 1..(k - 1) : results[l].content # content

\* the list a combined result came in on, and its place in that list
InputOf(combined, keyword_results, semantic_results) ==
    IF combined.content \in Contents(keyword_results)
    THEN <<1, PlaceOf(keyword_results, combined.content)>>
    ELSE <<2, PlaceOf(semantic_results, combined.content)>>

\* C22: the list _combine_search_results returns is sorted by non-increasing
\* similarity_score; of two results with equal scores a keyword result comes
\* before a semantic one, and two of the same list keep the order of their
\* list; two empty lists give the empty list.
CombinerOrdering ==
    op = "search_similar" =>
        /\ \A i, j \in Indices(ret.combined_results) :
               i < j =>
                 /\ ret.combined_results[i].similarity_score
                      >= ret.combined_results[j].similarity_score
                 /\ ret.combined_results[i].similarity_score
                      = ret.combined_results[j].similarity_score
                    => LET first == InputOf(ret.combined_results[i], ret.keyword_results,
                                            ret.semantic_results)
                           second == InputOf(ret.combined_results[j], ret.keyword_results,
                                             ret.semantic_results)
                       IN  \/ first[1] < second[1]
                           \/ first[1] = second[1] /\ first[2] < second[2]
        /\ (ret.semantic_results = <<>> /\ ret.keyword_results = <<>>)
              => ret.combined_results = <<>>

\* a keyword result and a semantic result of equal score were both returned
EqualScoresCombined ==
    /\ op = "search_similar"
    /\ \E i, j \in Indices(ret.combined_results) :
          /\ i < j
          /\ ret.combined_results[i].similarity_score
               = ret.combined_results[j].similarity_score
          /\ ret.combined_results[i].content \in Contents(ret.keyword_results)
          /\ ret.combined_results[j].content \notin Contents(ret.keyword_results)

\* the words that are scaffolding of a question, not a name
ScaffoldingWords == {"who", "is", "tell", "me", "about"}

\* C24 as claimed: for a query that contains "who is", "tell me about" or
\* "?" in any capitalization, no rewritten query of _generate_person_queries
\* contains that scaffolding, and none begins with a scaffolding word or
\* has one before its role word.
ScaffoldingStripped ==
    (op = "retrieve"
     /\ ContainsAny(Lower(args.user_query), {"who is", "tell me about", "?"})) =>
        \A q \in Rewrites(args.user_query) :
            /\ ~ContainsAny(Lower(q), {"who is", "tell me about", "?"})
            /\ \A i \in Indices(Split(q)) : Lower(Split(q)[i]) \notin ScaffoldingWords

====
